---- MODULE Spec2Model ----
(***************************************************************************)
(* Model of the music genre classification pipeline:                       *)
(*   backend/src/music_genre_calssification.py  (MusicGenreClassification, *)
(*                                                main)                    *)
(*   src/utils/file_utils.py                     (FileUtil)                *)
(*                                                                         *)
(* Three specifications share the module:                                  *)
(*   Spec         one run of main(), step by step, every collaborator call *)
(*                either returning or raising;                             *)
(*   SpecSnapshot make_dataset / read_dataset against a file system of     *)
(*                snapshot directories holding train.csv and test.csv;     *)
(*   SpecLength   FileUtil.get_file_length, one loop iteration per step.   *)
(* DataProcess, Classifier, AudioFeatureExtraction, ConfigReader and       *)
(* FileUtil.get_time are imported by the sources but their bodies are not  *)
(* part of them; where a body is needed it follows the written             *)
(* specification of the pipeline (sections 4.1 and 4.3).                   *)
(***************************************************************************)
EXTENDS Integers, Sequences, FiniteSets, TLC

VARIABLES
    \* ---- main() ----
    pc,                  \* position of main()
    feature_extraction,  \* run-mode switch, main line 140
    training,            \* run-mode switch, main line 141
    trace,               \* collaborator calls made so far, in order
    dataset,             \* where train_data, test_data, train_label, test_label came from
    model,               \* where model came from
    accuracy,            \* the local variable accuracy
    printed,             \* what line 179 printed
    now,                 \* the wall clock FileUtil.get_time reads
    dataset_dir,         \* directory_name_with_time of make_dataset
    model_dir,           \* the directory handed to CLF.save_model
    \* ---- snapshots ----
    dataframe,           \* the processed table handed to make_dataset
    cfg,                 \* ConfigReader: label_name, test_rate, shuffle
    fs,                  \* directory -> its files (or NoDir)
    made,                \* what the make_dataset calls returned, by directory
    loaded,              \* what the last read_dataset returned
    raised,              \* outcome of the last snapshot operation
    \* ---- get_file_length ----
    input_file,          \* the characters of the file
    offset,              \* read position of the file object
    it,                  \* enumerate()'s counter: lines yielded so far
    i,                   \* the local variable i
    result,              \* the returned value
    lpc                  \* position of get_file_length

mainVars == <<pc, feature_extraction, training, trace, dataset, model, accuracy,
              printed, now, dataset_dir, model_dir>>
snapVars == <<dataframe, cfg, fs, made, loaded, raised>>
lenVars  == <<input_file, offset, it, i, result, lpc>>
vars     == <<mainVars, snapVars, lenVars>>

\* ------------------------------------------------------------------ bounds
MaxClock == 3
IdWidth == 2
MaxRows == 3
MaxChars == 4

\* A local variable that has not been assigned yet.
Unset == "unset"

\* ============================================================== main()
output_data_directory == "../../feature"
model_directory_path == "../../model"

\* The float CLF.test returns, as printed; 0.0 is a legitimate score.
Accuracies == {"0.0", "0.5", "1.0"}

Pow10(k) == IF k = 0 THEN 1 ELSE IF k = 1 THEN 10 ELSE IF k = 2 THEN 100 ELSE 1000

\* FileUtil.get_time(): the clock reading written with fixed-width fields,
\* most significant first (as in "2019-01-23_23:19:56.871484").
get_time(t) == [k \in 1..IdWidth |-> (t \div Pow10(IdWidth - k)) % 10]

\* A path variable that has not been assigned yet.
NoPath == <<>>

\* os.path.join(directory, name)
join(directory, name) == <<directory, name>>

Call(name, ok) == [call |-> name, ok |-> ok]

\* A collaborator raises and main() has no try/except: the exception leaves
\* main() and the run ends there.
Propagate_swallow(name) ==
    /\ pc' = "print"
    /\ trace' = Append(trace, Call(name, FALSE))
    /\ accuracy' = "0.0"
    /\ UNCHANGED <<dataset, model, printed>>

Propagate(name) ==
    /\ pc' = "aborted"
    /\ trace' = Append(trace, Call(name, FALSE))
    /\ UNCHANGED <<dataset, model, accuracy, printed>>

Return(name, next) ==
    /\ pc' = next
    /\ trace' = Append(trace, Call(name, TRUE))

\* if feature_extraction is True: ... else: ...        (lines 150, 157)
FeatureBranch == IF feature_extraction THEN "feature_extraction" ELSE "read_dataset"

\* if training is True: ... else: ...                   (lines 161, 164)
ModelBranch_skip == "test"

ModelBranch == IF training THEN "training" ELSE "load_model"

\* data_process() starts with the normalization (line 93)
AfterFeatureExtraction_skipNormalize == "factorize"

AfterFeatureExtraction == "normalize"

\* the else of line 157 is skipped after make_dataset
AfterMakeDataset_noElse == "read_dataset"

AfterMakeDataset == ModelBranch

\* the else of line 164 is skipped after training
AfterTraining_noElse == "load_model"

AfterTraining == "test"

\* line 147: MGC = MusicGenreClassification(...), lines 36-40
Construct ==
    /\ pc = "construct"
    /\ \/ Return("MusicGenreClassification", FeatureBranch)
          /\ UNCHANGED <<dataset, model, accuracy, printed>>
       \/ Propagate("MusicGenreClassification")
    /\ UNCHANGED <<dataset_dir, model_dir>>
    /\ UNCHANGED <<feature_extraction, training, now, snapVars, lenVars>>

\* line 153: MGC.feature_extraction(), line 48
FeatureExtraction ==
    /\ pc = "feature_extraction"
    /\ \/ Return("AFE.extract_dataset", AfterFeatureExtraction)
          /\ UNCHANGED <<dataset, model, accuracy, printed>>
       \/ Propagate("AFE.extract_dataset")
    /\ UNCHANGED <<dataset_dir, model_dir>>
    /\ UNCHANGED <<feature_extraction, training, now, snapVars, lenVars>>

\* line 155 -> line 93: DataProcess.normalize_dataframe
Normalize ==
    /\ pc = "normalize"
    /\ \/ Return("DataProcess.normalize_dataframe", "factorize")
          /\ UNCHANGED <<dataset, model, accuracy, printed>>
       \/ Propagate("DataProcess.normalize_dataframe")
    /\ UNCHANGED <<dataset_dir, model_dir>>
    /\ UNCHANGED <<feature_extraction, training, now, snapVars, lenVars>>

\* line 155 -> line 95: DataProcess.factorize_lebel
Factorize ==
    /\ pc = "factorize"
    /\ \/ Return("DataProcess.factorize_lebel", "make_dataset")
          /\ UNCHANGED <<dataset, model, accuracy, printed>>
       \/ Propagate("DataProcess.factorize_lebel")
    /\ UNCHANGED <<dataset_dir, model_dir>>
    /\ UNCHANGED <<feature_extraction, training, now, snapVars, lenVars>>

\* line 156 -> lines 61-66: the directory is named after the clock, then
\* DataProcess.make_dataset splits and writes
MakeDataset ==
    /\ pc = "make_dataset"
    /\ dataset_dir' = join(output_data_directory, get_time(now))
    /\ \/ Return("DataProcess.make_dataset", AfterMakeDataset)
          /\ dataset' = "make_dataset"
          /\ UNCHANGED <<model, accuracy, printed>>
       \/ Propagate("DataProcess.make_dataset")
    /\ UNCHANGED model_dir
    /\ UNCHANGED <<feature_extraction, training, now, snapVars, lenVars>>

\* line 159 -> lines 78-81: DataProcess.read_dataset
ReadDataset ==
    /\ pc = "read_dataset"
    /\ \/ Return("DataProcess.read_dataset", ModelBranch)
          /\ dataset' = "read_dataset"
          /\ UNCHANGED <<model, accuracy, printed>>
       \/ Propagate("DataProcess.read_dataset")
    /\ UNCHANGED <<dataset_dir, model_dir>>
    /\ UNCHANGED <<feature_extraction, training, now, snapVars, lenVars>>

\* line 163 -> line 107: CLF.training
Training ==
    /\ pc = "training"
    /\ \/ Return("CLF.training", "save_model")
          /\ UNCHANGED <<dataset, model, accuracy, printed>>
       \/ Propagate("CLF.training")
    /\ UNCHANGED <<dataset_dir, model_dir>>
    /\ UNCHANGED <<feature_extraction, training, now, snapVars, lenVars>>

\* line 163 -> lines 110-111: CLF.save_model under a directory named after the clock
SaveModel ==
    /\ pc = "save_model"
    /\ model_dir' = join(model_directory_path, get_time(now))
    /\ \/ Return("CLF.save_model", AfterTraining)
          /\ model' = "training"
          /\ UNCHANGED <<dataset, accuracy, printed>>
       \/ Propagate("CLF.save_model")
    /\ UNCHANGED dataset_dir
    /\ UNCHANGED <<feature_extraction, training, now, snapVars, lenVars>>

\* line 166: MGC.CLF.load_model(model_file)
LoadModel ==
    /\ pc = "load_model"
    /\ \/ Return("CLF.load_model", "test")
          /\ model' = "load_model"
          /\ UNCHANGED <<dataset, accuracy, printed>>
       \/ Propagate("CLF.load_model")
    /\ UNCHANGED <<dataset_dir, model_dir>>
    /\ UNCHANGED <<feature_extraction, training, now, snapVars, lenVars>>

\* line 169 -> line 122: accuracy = CLF.test(model, test_data, test_label)
Test ==
    /\ pc = "test"
    /\ \/ \E a \in Accuracies :
             /\ Return("CLF.test", "print")
             /\ accuracy' = a
             /\ UNCHANGED <<dataset, model, printed>>
       \/ Propagate("CLF.test")
    /\ UNCHANGED <<dataset_dir, model_dir>>
    /\ UNCHANGED <<feature_extraction, training, now, snapVars, lenVars>>

\* lines 178-179: print("Final accuracy is {0}".format(accuracy))
PrintAccuracy ==
    /\ pc = "print"
    /\ printed' = Append(printed, accuracy)
    /\ pc' = "done"
    /\ UNCHANGED <<trace, dataset, model, accuracy, dataset_dir, model_dir>>
    /\ UNCHANGED <<feature_extraction, training, now, snapVars, lenVars>>

\* The wall clock moves on while main() runs; two readings may fall in one tick.
Tick ==
    /\ pc \notin {"done", "aborted"}
    /\ now < MaxClock
    /\ now' = now + 1
    /\ UNCHANGED <<pc, feature_extraction, training, trace, dataset, model,
                   accuracy, printed, dataset_dir, model_dir, snapVars, lenVars>>

SnapIdle ==
    /\ dataframe = <<>> /\ cfg = <<>> /\ fs = <<>>
    /\ made = {} /\ loaded = <<>> /\ raised = <<>>

LenIdle ==
    /\ input_file = <<>> /\ offset = 0 /\ it = 0 /\ i = 0
    /\ result = <<>> /\ lpc = "idle"

MainIdle ==
    /\ pc = "idle" /\ feature_extraction = FALSE /\ training = FALSE
    /\ trace = <<>> /\ dataset = Unset /\ model = Unset /\ accuracy = Unset
    /\ printed = <<>> /\ now = 0 /\ dataset_dir = NoPath /\ model_dir = NoPath

\* main(), lines 135-144: the locals before the first call. The two switches
\* are literals a user edits (False and True as checked in); the model covers
\* the four settings.
Init ==
    /\ pc = "construct"
    /\ feature_extraction \in BOOLEAN
    /\ training \in BOOLEAN
    /\ trace = <<>>
    /\ dataset = Unset
    /\ model = Unset
    /\ accuracy = Unset
    /\ printed = <<>>
    /\ now = 0
    /\ dataset_dir = NoPath
    /\ model_dir = NoPath
    /\ SnapIdle
    /\ LenIdle

Next ==
    \/ Construct
    \/ FeatureExtraction
    \/ Normalize
    \/ Factorize
    \/ MakeDataset
    \/ ReadDataset
    \/ Training
    \/ SaveModel
    \/ LoadModel
    \/ Test
    \/ PrintAccuracy
    \/ Tick

Spec == Init /\ [][Next]_vars

\* ====================================================== claims on main()
Pos(name) == {k \in DOMAIN trace : trace[k].call = name}
OkPos(name) == {k \in Pos(name) : trace[k].ok}

\* C1: the steps of a run come in the order features, split, model, test:
\* CLF.test is called only after the four train/test structures were returned
\* (by make_dataset or read_dataset) and, after that, a model was returned (by
\* save_model's training or by load_model); an accuracy exists only once
\* CLF.test returned, CLF.test is called at most once, and a completed run
\* has produced and printed exactly one accuracy.
C1_StepOrder ==
    /\ \A k \in Pos("CLF.test") :
          \E j \in 1..(k - 1) :
             /\ trace[j].ok
             /\ trace[j].call \in {"DataProcess.make_dataset", "DataProcess.read_dataset"}
             /\ \E m \in (j + 1)..(k - 1) :
                   /\ trace[m].ok
                   /\ trace[m].call \in {"CLF.save_model", "CLF.load_model"}
    /\ pc = "test" => dataset # Unset /\ model # Unset
    /\ model # Unset => dataset # Unset
    /\ accuracy # Unset <=> OkPos("CLF.test") # {}
    /\ accuracy # Unset => pc \in {"print", "done"}
    /\ Cardinality(Pos("CLF.test")) <= 1
    /\ printed # <<>> => pc = "done"
    /\ pc = "done" => /\ Cardinality(OkPos("CLF.test")) = 1
                      /\ accuracy \in Accuracies
                      /\ printed = <<accuracy>>

C1_Witness ==
    /\ pc = "done"
    /\ feature_extraction
    /\ training
    /\ printed = <<"1.0">>

\* C2: a run uses exactly one feature source. extract_dataset and read_dataset
\* are never both called, each at most once, and once the run is past the
\* feature step one of them has been called; which one is fixed by the
\* feature_extraction switch. On the reuse path extract_dataset and
\* make_dataset are never called and no snapshot directory is named.
C2_OneFeatureSource ==
    /\ Pos("AFE.extract_dataset") = {} \/ Pos("DataProcess.read_dataset") = {}
    /\ Cardinality(Pos("AFE.extract_dataset")) <= 1
    /\ Cardinality(Pos("DataProcess.read_dataset")) <= 1
    /\ (Pos("AFE.extract_dataset") = {} /\ Pos("DataProcess.read_dataset") = {})
          => \/ pc \in {"construct", "feature_extraction", "read_dataset"}
             \/ pc = "aborted" /\ trace = <<Call("MusicGenreClassification", FALSE)>>
    /\ feature_extraction => Pos("DataProcess.read_dataset") = {}
    /\ ~feature_extraction =>
          /\ Pos("AFE.extract_dataset") = {}
          /\ Pos("DataProcess.make_dataset") = {}
          /\ dataset_dir = NoPath
          /\ dataset \in {Unset, "read_dataset"}

C2_Witness ==
    /\ pc = "done"
    /\ ~feature_extraction
    /\ OkPos("DataProcess.read_dataset") # {}

\* C3: processing belongs to the fresh path and runs normalize, then
\* encode_labels, then make_dataset: normalize_dataframe is called right after
\* extract_dataset returned, factorize_lebel right after normalize_dataframe
\* returned, make_dataset right after factorize_lebel returned; on the reuse
\* path neither normalize_dataframe nor factorize_lebel is ever called.
C3_ProcessingOrder ==
    /\ \A k \in Pos("DataProcess.normalize_dataframe") :
          k > 1 /\ trace[k - 1] = Call("AFE.extract_dataset", TRUE)
    /\ \A k \in Pos("DataProcess.factorize_lebel") :
          k > 1 /\ trace[k - 1] = Call("DataProcess.normalize_dataframe", TRUE)
    /\ \A k \in Pos("DataProcess.make_dataset") :
          k > 1 /\ trace[k - 1] = Call("DataProcess.factorize_lebel", TRUE)
    /\ Pos("DataProcess.read_dataset") # {} =>
          /\ Pos("DataProcess.normalize_dataframe") = {}
          /\ Pos("DataProcess.factorize_lebel") = {}
    /\ dataset = "make_dataset" =>
          /\ OkPos("DataProcess.normalize_dataframe") # {}
          /\ OkPos("DataProcess.factorize_lebel") # {}

C3_Witness ==
    /\ dataset = "make_dataset"
    /\ OkPos("DataProcess.make_dataset") # {}
    /\ pc = "done"

\* C4: a step that raises ends the run at once. The failed call is the last
\* call of the run, no call is made twice, the run is aborted, and it has no
\* accuracy (not 0, not any other value) and has printed nothing.
C4_FailureAborts ==
    /\ \A k \in DOMAIN trace :
          ~trace[k].ok => /\ k = Len(trace)
                          /\ pc = "aborted"
                          /\ accuracy = Unset
                          /\ printed = <<>>
    /\ pc = "aborted" => trace # <<>> /\ ~trace[Len(trace)].ok
    /\ \A j, k \in DOMAIN trace : j # k => trace[j].call # trace[k].call

C4_Witness ==
    /\ pc = "aborted"
    /\ trace[Len(trace)] = Call("CLF.save_model", FALSE)
    /\ dataset = "make_dataset"

\* C8: the identifier of the dataset snapshot directory and the identifier of
\* the model directory of one run are distinct, and sort lexically in the
\* order they were generated (dataset first).
RECURSIVE LexLess(_, _)
LexLess(a, b) ==
    IF a = <<>> \/ b = <<>> THEN a = <<>> /\ b # <<>>
    ELSE \/ Head(a) < Head(b)
         \/ Head(a) = Head(b) /\ LexLess(Tail(a), Tail(b))

C9_OneModelSource ==
    /\ Pos("CLF.training") = {} \/ Pos("CLF.load_model") = {}
    /\ Cardinality(Pos("CLF.training")) <= 1
    /\ Cardinality(Pos("CLF.load_model")) <= 1
    /\ pc \in {"test", "print", "done"} =>
          /\ model = (IF training THEN "training" ELSE "load_model")
          /\ training => OkPos("CLF.training") # {} /\ OkPos("CLF.save_model") # {}
          /\ ~training => OkPos("CLF.load_model") # {}
    /\ \A k \in Pos("CLF.save_model") :
          /\ k > 1 /\ trace[k - 1] = Call("CLF.training", TRUE)
          /\ model_dir \in {join(model_directory_path, get_time(t)) : t \in 0..now}
    /\ ~training =>
          /\ Pos("CLF.training") = {}
          /\ Pos("CLF.save_model") = {}
          /\ model_dir = NoPath
    /\ training => Pos("CLF.load_model") = {}

C9_Witness ==
    /\ pc = "done"
    /\ training
    /\ model_dir = join(model_directory_path, get_time(MaxClock))

\* ================================================ FileUtil.get_file_length
\* A text file: characters, "\n" ending a line.
Chars == {"a", "\n"}
Files == UNION {[1..n -> Chars] : n \in 0..MaxChars}

\* The file object's iterator: the next line starts at the read position and
\* runs up to and including the next "\n", or to the end of the file.
LineEnd(content, from) ==
    IF \E k \in from..Len(content) : content[k] = "\n"
    THEN CHOOSE k \in from..Len(content) :
            /\ content[k] = "\n"
            /\ \A j \in from..(k - 1) : content[j] # "\n"
    ELSE Len(content)

\* line 60: i = 0; line 61: open(i_filename)
LengthOpen ==
    /\ lpc = "open"
    /\ i' = 0
    /\ offset' = 0
    /\ it' = 0
    /\ lpc' = "for"
    /\ UNCHANGED <<input_file, result, mainVars, snapVars>>

\* lines 62-63: for i, l in enumerate(input_file): pass
LengthIterate ==
    /\ lpc = "for"
    /\ offset < Len(input_file)
    /\ i' = it
    /\ it' = it + 1
    /\ offset' = LineEnd(input_file, offset + 1)
    /\ UNCHANGED <<input_file, result, lpc, mainVars, snapVars>>

\* line 64: the iterator is exhausted; return i + 1
LengthReturn ==
    /\ lpc = "for"
    /\ offset >= Len(input_file)
    /\ result' = <<i + 1>>
    /\ lpc' = "done"
    /\ UNCHANGED <<input_file, offset, it, i, mainVars, snapVars>>

InitLength ==
    /\ MainIdle
    /\ SnapIdle
    /\ input_file \in Files
    /\ offset = 0 /\ it = 0 /\ i = 0
    /\ result = <<>>
    /\ lpc = "open"

NextLength ==
    \/ LengthOpen
    \/ LengthIterate
    \/ LengthReturn

SpecLength == InitLength /\ [][NextLength]_vars

\* The number of lines of a text: one per "\n", and one more for a last line
\* that no "\n" ends.
LineCount(content) ==
    Cardinality({k \in DOMAIN content : content[k] = "\n"})
       + (IF content # <<>> /\ content[Len(content)] # "\n" THEN 1 ELSE 0)

\* C10: get_file_length returns the number of lines of the file, for every
\* file: n for a file of n lines, 0 for the empty file, 1 for a one-line file.
C10_CountsLines ==
    lpc = "done" => result = <<LineCount(input_file)>>

\* ====================================================== snapshots
\* ---- tables ----
\* A data frame: named columns, rows of cells, and the row labels (index).
\* Cells of a processed table are numbers: label codes and scaled features.
label_name == "genre"
Columns == <<"f1", "genre", "f2">>
RowPool == {<<0, 0, 12>>, <<12, 1, 7>>}
RangeIndex(n) == [k \in 1..n |-> k - 1]
DataFrame(columns, rows, index) == [columns |-> columns, rows |-> rows, index |-> index]
Tables == UNION {{DataFrame(Columns, rows, RangeIndex(n)) : rows \in [1..n -> RowPool]}
                 : n \in 0..MaxRows}

\* test_rate, a float strictly between 0 and 1, as numerator and denominator.
Rates == {<<1, 10>>, <<1, 5>>, <<1, 2>>, <<2, 3>>}

\* ---- Tabular I/O: FileUtil ----
DigitChars == <<"0", "1", "2", "3", "4", "5", "6", "7", "8", "9">>

\* str(number) as to_csv writes a cell
RECURSIVE Format(_)
Format(v) == IF v < 10 THEN <<DigitChars[v + 1]>>
             ELSE Append(Format(v \div 10), DigitChars[(v % 10) + 1])

\* the number read_csv parses from a cell
RECURSIVE Parse(_)
Parse(text) ==
    IF text = <<>> THEN 0
    ELSE LET last == CHOOSE d \in 0..9 : DigitChars[d + 1] = text[Len(text)]
         IN  10 * Parse(SubSeq(text, 1, Len(text) - 1)) + last

\* to_csv with pandas' default index=True: the row labels become a first,
\* unnamed column.
dataframe2csv_withIndex(input_dataframe) ==
    [header  |-> <<"">> \o input_dataframe.columns,
     records |-> [r \in DOMAIN input_dataframe.rows |->
                    <<Format(input_dataframe.index[r])>>
                       \o [c \in DOMAIN input_dataframe.rows[r] |->
                             Format(input_dataframe.rows[r][c])]]]

\* FileUtil.dataframe2csv: input_dataframe.to_csv(output_filename, index=False),
\* a header line and one record per row; the row labels are not written.
dataframe2csv(input_dataframe) ==
    [header  |-> input_dataframe.columns,
     records |-> [r \in DOMAIN input_dataframe.rows |->
                    [c \in DOMAIN input_dataframe.rows[r] |->
                       Format(input_dataframe.rows[r][c])]]]

\* FileUtil.csv2dataframe: pd.read_csv(input_filename); the header names the
\* columns (an empty name reads as "Unnamed: 0"), the rows are numbered anew.
csv2dataframe(content) ==
    DataFrame([c \in DOMAIN content.header |->
                 IF content.header[c] = "" THEN "Unnamed: 0" ELSE content.header[c]],
              [r \in DOMAIN content.records |->
                 [c \in DOMAIN content.records[r] |-> Parse(content.records[r][c])]],
              RangeIndex(Len(content.records)))

\* ---- DataProcess ----
\* round(a / b) for a >= 0, b > 0, halves to the even neighbour
Round(a, b) ==
    LET fl == a \div b
        rem == a % b
    IN  IF 2 * rem < b THEN fl
        ELSE IF 2 * rem > b THEN fl + 1
        ELSE IF fl % 2 = 0 THEN fl ELSE fl + 1

\* split: the first 1 - test_rate fraction of the rows, integer-rounded, is train
TrainCount(n, rate) == Round(n * (rate[2] - rate[1]), rate[2])

RowOrders(n) == {f \in [1..n -> 1..n] : \A a, b \in 1..n : f[a] = f[b] => a = b}

Reorder(table, perm) ==
    DataFrame(table.columns,
              [k \in DOMAIN table.rows |-> table.rows[perm[k]]],
              [k \in DOMAIN table.rows |-> table.index[perm[k]]])

Slice(table, from, to) ==
    DataFrame(table.columns, SubSeq(table.rows, from, to), SubSeq(table.index, from, to))

LabelAt(table, label) == CHOOSE c \in DOMAIN table.columns : table.columns[c] = label

Without(seq, c) == SubSeq(seq, 1, c - 1) \o SubSeq(seq, c + 1, Len(seq))

\* the table without its label column
DataOf(table, label) ==
    DataFrame(Without(table.columns, LabelAt(table, label)),
              [r \in DOMAIN table.rows |-> Without(table.rows[r], LabelAt(table, label))],
              table.index)

\* the label column of the table
LabelOf(table, label) ==
    [name |-> label,
     values |-> [r \in DOMAIN table.rows |-> table.rows[r][LabelAt(table, label)]],
     index |-> table.index]

\* split(table, label_column, test_rate, shuffle), given the row order the
\* shuffle produced (the identity when shuffle is off)
Split(table, label, rate, perm) ==
    LET shuffled == Reorder(table, perm)
        n == Len(table.rows)
        train == Slice(shuffled, 1, TrainCount(n, rate))
        test == Slice(shuffled, TrainCount(n, rate) + 1, n)
    IN  [train_data |-> DataOf(train, label), test_data |-> DataOf(test, label),
         train_label |-> LabelOf(train, label), test_label |-> LabelOf(test, label)]

\* persist_snapshot: each (data, label) pair becomes one table again, the
\* label column reinserted
Recombine(data, label) ==
    DataFrame(Append(data.columns, label.name),
              [r \in DOMAIN data.rows |-> Append(data.rows[r], label.values[r])],
              data.index)

File(name, content) == [name |-> name, content |-> content]

SnapshotFiles(parts) ==
    {File("train.csv", dataframe2csv(Recombine(parts.train_data, parts.train_label))),
     File("test.csv", dataframe2csv(Recombine(parts.test_data, parts.test_label)))}

\* persist_snapshot's guard: a directory that exists and is not empty is
\* never written to
MayWrite_overwrite(directory) == TRUE

MayWrite(directory) == fs[directory].files = {}

\* cfg.test_rate as handed to DataProcess.make_dataset (line 64)
PassedTestRate_trainShare == <<cfg.test_rate[2] - cfg.test_rate[1], cfg.test_rate[2]>>

PassedTestRate == cfg.test_rate

Outcome(op, directory, error, populated) ==
    [op |-> op, directory |-> directory, error |-> error, populated |-> populated]

\* The snapshot directory named after the clock reading of the run, and one
\* named after another reading, which nothing is written to.
SnapshotDirs == {join(output_data_directory, get_time(0)),
                 join(output_data_directory, get_time(MaxClock))}

\* DataProcess.make_dataset(dataframe, label_name, test_rate, shuffle,
\* output_directory): split, then persist_snapshot. The directory is created
\* if absent; one that holds files raises IOError and nothing is returned.
DataProcess_make_dataset(table, label, rate, shuffle, directory) ==
    \E perm \in RowOrders(Len(table.rows)) :
       /\ shuffle \/ perm = [k \in 1..Len(table.rows) |-> k]
       /\ LET parts == Split(table, label, rate, perm)
          IN  IF MayWrite(directory)
              THEN /\ fs' = [fs EXCEPT ![directory] =
                               [exists |-> TRUE, files |-> SnapshotFiles(parts)]]
                   /\ made' = made \cup {[directory |-> directory, parts |-> parts]}
                   /\ raised' = Outcome("make_dataset", directory, "",
                                        fs[directory].files # {})
              ELSE /\ raised' = Outcome("make_dataset", directory, "IOError",
                                        fs[directory].files # {})
                   /\ UNCHANGED <<fs, made>>

HasFile(directory, name) == \E f \in fs[directory].files : f.name = name
ReadFile(directory, name) == (CHOOSE f \in fs[directory].files : f.name = name).content

\* DataProcess.read_dataset(directory, label_name): load_snapshot. Reads the
\* two tables back and takes the label column out of each; NotFoundError if
\* either file is missing.
DataProcess_read_dataset(directory, label) ==
    IF ~(HasFile(directory, "train.csv") /\ HasFile(directory, "test.csv"))
    THEN /\ raised' = Outcome("read_dataset", directory, "NotFoundError",
                              fs[directory].files # {})
         /\ UNCHANGED loaded
    ELSE LET train == csv2dataframe(ReadFile(directory, "train.csv"))
             test == csv2dataframe(ReadFile(directory, "test.csv"))
         IN  /\ loaded' = <<[directory |-> directory,
                             parts |-> [train_data |-> DataOf(train, label),
                                        test_data |-> DataOf(test, label),
                                        train_label |-> LabelOf(train, label),
                                        test_label |-> LabelOf(test, label)]]>>
             /\ raised' = Outcome("read_dataset", directory, "",
                                  fs[directory].files # {})

\* MusicGenreClassification.make_dataset(dataframe, output_directory), lines
\* 61-66: names the directory after the clock and hands the table and the
\* configured label name, test rate and shuffle flag to DataProcess.make_dataset.
SnapMakeDataset ==
    /\ lpc = "snapshot"
    /\ DataProcess_make_dataset(dataframe, cfg.label_name, PassedTestRate, cfg.shuffle,
                                join(output_data_directory, get_time(now)))
    /\ UNCHANGED <<dataframe, cfg, loaded, now, lpc>>
    /\ UNCHANGED <<pc, feature_extraction, training, trace, dataset, model,
                   accuracy, printed, dataset_dir, model_dir>>
    /\ UNCHANGED <<input_file, offset, it, i, result>>

\* MusicGenreClassification.read_dataset(input_data_directory_with_date),
\* lines 78-81
SnapReadDataset ==
    /\ lpc = "snapshot"
    /\ \E input_data_directory_with_date \in SnapshotDirs :
          DataProcess_read_dataset(input_data_directory_with_date, cfg.label_name)
    /\ UNCHANGED <<dataframe, cfg, fs, made, now, lpc>>
    /\ UNCHANGED <<pc, feature_extraction, training, trace, dataset, model,
                   accuracy, printed, dataset_dir, model_dir>>
    /\ UNCHANGED <<input_file, offset, it, i, result>>

\* A processed table, a configuration, and a feature root whose first
\* snapshot directory is absent or present and empty.
InitSnapshot ==
    /\ MainIdle
    /\ input_file = <<>> /\ offset = 0 /\ it = 0 /\ i = 0
    /\ result = <<>> /\ lpc = "snapshot"
    /\ dataframe \in Tables
    /\ cfg \in [label_name : {label_name}, test_rate : Rates, shuffle : BOOLEAN]
    /\ \E present \in BOOLEAN :
          fs = [d \in SnapshotDirs |->
                  [exists |-> present /\ d = join(output_data_directory, get_time(0)),
                   files |-> {}]]
    /\ made = {}
    /\ loaded = <<>>
    /\ raised = Outcome("", NoPath, "", FALSE)

NextSnapshot ==
    \/ SnapMakeDataset
    \/ SnapReadDataset

SpecSnapshot == InitSnapshot /\ [][NextSnapshot]_vars

\* ---------------------------------------------------- claims on snapshots
SameData(a, b) == a.columns = b.columns /\ a.rows = b.rows
SameLabel(a, b) == a.name = b.name /\ a.values = b.values

\* a row of the processed table as a snapshot holds it: label moved last
LabelLast(row) == Append(Without(row, LabelAt(dataframe, cfg.label_name)),
                         row[LabelAt(dataframe, cfg.label_name)])

\* the rows of a returned split, train first, each with its label
RowsOf(parts) == Recombine(parts.train_data, parts.train_label).rows
                    \o Recombine(parts.test_data, parts.test_label).rows

Abs(x) == IF x < 0 THEN -x ELSE x

\* C5: persist_snapshot never overwrites. A step never changes a directory
\* that holds files; a directory that changes ends up existing with exactly
\* train.csv and test.csv; make_dataset on a directory that holds files raises
\* IOError and changes nothing, on any other directory it succeeds; and the
\* files of every call that succeeded are still the ones it wrote.
C5_NeverOverwrites ==
    [][ /\ \A d \in SnapshotDirs : fs[d].files # {} => fs'[d] = fs[d]
        /\ \A d \in SnapshotDirs :
              fs'[d] # fs[d] => /\ fs'[d].exists
                                /\ {f.name : f \in fs'[d].files} = {"train.csv", "test.csv"}
        /\ (raised'.op = "make_dataset" /\ raised'.populated)
              => raised'.error = "IOError" /\ fs' = fs /\ made' = made
        /\ (raised'.op = "make_dataset" /\ ~raised'.populated)
              => raised'.error = "" /\ fs'[raised'.directory].exists
        /\ \A m \in made' : fs'[m.directory].files = SnapshotFiles(m.parts)
        /\ \A m1, m2 \in made' : m1.directory = m2.directory => m1 = m2
      ]_vars

C5_Witness ==
    /\ raised.op = "make_dataset"
    /\ raised.error = "IOError"
    /\ \E m \in made :
          /\ m.directory = raised.directory
          /\ fs[m.directory].files = SnapshotFiles(m.parts)
          /\ Len(m.parts.test_data.rows) > 0
    /\ cfg.shuffle

C7_SplitSizes ==
    /\ \A m \in made :
          LET n == Len(dataframe.rows)
              tr == Len(m.parts.train_data.rows)
              te == Len(m.parts.test_data.rows)
          IN  /\ tr + te = n
              /\ Abs(te - Round(n * cfg.test_rate[1], cfg.test_rate[2])) <= 1
              /\ Len(m.parts.train_label.values) = tr
              /\ Len(m.parts.test_label.values) = te
              /\ ~cfg.shuffle =>
                    RowsOf(m.parts) = [k \in 1..n |-> LabelLast(dataframe.rows[k])]
    /\ TrainCount(100, <<1, 5>>) = 80
    /\ 100 - TrainCount(100, <<1, 5>>) = Round(100 * 1, 5)

C7_Witness ==
    \E m \in made :
       /\ Len(dataframe.rows) = 3
       /\ cfg.test_rate = <<1, 2>>
       /\ ~cfg.shuffle
       /\ Len(m.parts.train_data.rows) = 2
       /\ Len(m.parts.test_data.rows) = 1

====
